---- MODULE Spec2Model ----
(***************************************************************************)
(* Price-level order book of fast_orderbook: two quantity arrays indexed   *)
(* by price, each with a 128-bit presence set (Bitset128), mutated by      *)
(* ApplySnapshot / ApplyDelta / ApplyTrade and read by BestBid / BestAsk / *)
(* GetTopNBids / GetTopNAsks.                                              *)
(*                                                                         *)
(* Representation.  An unsigned int (32 bits) is the record [hi, lo] of    *)
(* its two 16-bit halves, so that the arithmetic is exactly mod 2^32.  A   *)
(* uint64_t word of the bitset is the set of the positions (0..63) of its  *)
(* 1 bits.                                                                 *)
(***************************************************************************)
EXTENDS Integers, Sequences, FiniteSets, TLC

VARIABLES bids_, asks_, bids_bitset_, asks_bitset_, last, prev, calls

vars == <<bids_, asks_, bids_bitset_, asks_bitset_, last, prev, calls>>

(***************************************************************************)
(* Program constants                                                       *)
(***************************************************************************)
kMaxBookLevels == 100

kArraySize == kMaxBookLevels

kMaxBitPosition == 128

(***************************************************************************)
(* Bounds of the model                                                     *)
(***************************************************************************)
\* number of calls made on one book
MaxCalls == 2

\* largest n of a top-N query
MaxN == 2

(***************************************************************************)
(* unsigned int: 32-bit modular arithmetic on [hi, lo]                     *)
(***************************************************************************)
TwoTo16 == 2^16

\* conversion of an int to unsigned int (value mod 2^32)
U32(n) == [hi |-> (n \div TwoTo16) % TwoTo16, lo |-> n % TwoTo16]

Zero32 == U32(0)

\* a + b as unsigned int
Add32(a, b) ==
  LET lo == a.lo + b.lo
      hi == a.hi + b.hi + (lo \div TwoTo16)
  IN  [hi |-> hi % TwoTo16, lo |-> lo % TwoTo16]

\* a - b as unsigned int
Sub32(a, b) ==
  LET lo == a.lo - b.lo
      hi == a.hi - b.hi + (lo \div TwoTo16)
  IN  [hi |-> hi % TwoTo16, lo |-> lo % TwoTo16]

(***************************************************************************)
(* uint64_t words as sets of bit positions                                 *)
(***************************************************************************)
MaxOf(S) == CHOOSE m \in S : \A e \in S : e <= m

MinOf(S) == CHOOSE m \in S : \A e \in S : m <= e

\* static_cast<uint64_t>(1) << pos
OneShl(pos) == {pos}

\* __builtin_clzll(w), w # 0
Clzll(w) == 63 - MaxOf(w)

\* __builtin_ctzll(w), w # 0
Ctzll(w) == MinOf(w)

(***************************************************************************)
(* Bitset128                                                               *)
(***************************************************************************)
EmptyBitset == [low |-> {}, high |-> {}]

\* mutant of SetBit: no range check, the shift count taken mod 64 as the
\* hardware shifter does
SetBit_ShiftWraps(bs, pos) ==
  IF pos < 64 THEN [bs EXCEPT !.low = bs.low \cup OneShl(pos)]
  ELSE [bs EXCEPT !.high = bs.high \cup OneShl((pos - 64) % 64)]

SetBit(bs, pos) ==
  IF pos >= kMaxBitPosition THEN bs
  ELSE IF pos < 64 THEN [bs EXCEPT !.low = bs.low \cup OneShl(pos)]
  ELSE [bs EXCEPT !.high = bs.high \cup OneShl(pos - 64)]

ClearBit(bs, pos) ==
  IF pos >= kMaxBitPosition THEN bs
  ELSE IF pos < 64 THEN [bs EXCEPT !.low = bs.low \ OneShl(pos)]
  ELSE [bs EXCEPT !.high = bs.high \ OneShl(pos - 64)]

TestBit(bs, pos) ==
  IF pos >= kMaxBitPosition THEN FALSE
  ELSE IF pos < 64 THEN (bs.low \cap OneShl(pos)) # {}
  ELSE (bs.high \cap OneShl(pos - 64)) # {}

\* mutant of HighestSetBit: the low word is inspected first
HighestSetBit_LowFirst(bs) ==
  IF bs.low # {} THEN 63 - Clzll(bs.low)
  ELSE IF bs.high # {} THEN 64 + (63 - Clzll(bs.high))
  ELSE -1

HighestSetBit(bs) ==
  IF bs.high # {} THEN 64 + (63 - Clzll(bs.high))
  ELSE IF bs.low # {} THEN 63 - Clzll(bs.low)
  ELSE -1

LowestSetBit(bs) ==
  IF bs.low # {} THEN Ctzll(bs.low)
  ELSE IF bs.high # {} THEN 64 + Ctzll(bs.high)
  ELSE -1

(***************************************************************************)
(* The book                                                                *)
(***************************************************************************)
Levels == 0 .. (kArraySize - 1)

\* the four data members as one value
Book == [bids_ |-> bids_, asks_ |-> asks_,
         bids_bitset_ |-> bids_bitset_, asks_bitset_ |-> asks_bitset_]

\* OrderBook::OrderBook(), and the reset at the head of ApplySnapshot
EmptyBook == [bids_ |-> [p \in Levels |-> Zero32], asks_ |-> [p \in Levels |-> Zero32],
              bids_bitset_ |-> EmptyBitset, asks_bitset_ |-> EmptyBitset]

(***************************************************************************)
(* Inputs                                                                  *)
(***************************************************************************)
Sides == {"kUndefined", "kYes", "kNo"}

\* prices of the messages: a level of the low word (the level 0), the last
\* level (in the high word) and the first price outside the book
Prices == {0, kArraySize - 1, kArraySize}

\* (price, quantity) pairs of the snapshot lists: the two levels with a zero
\* and a non-zero quantity, and a pair outside the book
SnapLevels == ({0, kArraySize - 1} \X {U32(0), U32(1)}) \cup {<<kArraySize, U32(1)>>}

\* signed deltas
Deltas == {-1, 1, 2}

\* prices of the trades: the last level and the first price outside the book
TradePrices == {kArraySize - 1, kArraySize}

\* executed counts of trades
Counts == {0, 1, 2}

\* out-of-range prices the discarding paths are also tried on: beyond the
\* book but inside the bitset, beyond the bitset, and the largest int
FarPrices == {kMaxBitPosition - 1, kMaxBitPosition, 2147483647}

\* n of the top-N queries
Ns == (-1) .. MaxN

\* (yes_count, no_count) of the snapshots: at most two levels in all
SnapCounts == {<<0, 0>>, <<1, 0>>, <<0, 1>>, <<2, 0>>, <<1, 1>>, <<0, 2>>}

\* the snapshot whose lists hold the pairs yes[0 .. yc-1] and no[0 .. nc-1] (the
\* array entries past the counts are never read)
SnapshotOf(yes, yc, no, nc) ==
  [yes_count |-> yc,
   yes_price |-> [i \in 0 .. (yc - 1) |-> yes[i][1]],
   yes_qty |-> [i \in 0 .. (yc - 1) |-> yes[i][2]],
   no_count |-> nc,
   no_price |-> [i \in 0 .. (nc - 1) |-> no[i][1]],
   no_qty |-> [i \in 0 .. (nc - 1) |-> no[i][2]]]

(***************************************************************************)
(* ApplySnapshot                                                           *)
(***************************************************************************)
\* mutant of ResetBook: the arrays are zeroed, the bitsets are forgotten
ResetBook_ArraysOnly(B) == [B EXCEPT !.bids_ = EmptyBook.bids_, !.asks_ = EmptyBook.asks_]

\* the memset of both arrays and the zeroing of both bitsets
ResetBook(B) == EmptyBook

\* mutant of LoadLevels: the bit is set for every price the bitset can hold,
\* the array written only inside the book
RECURSIVE LoadLevels_BitsetRange(_, _, _, _, _)
LoadLevels_BitsetRange(S, price, qty, count, i) ==
  IF ~(i < count) THEN S
  ELSE LET price_value == price[i]
           quantity_value == qty[i]
       IN  LoadLevels_BitsetRange(
             [arr |-> IF price_value < kArraySize
                        THEN [S.arr EXCEPT ![price_value] = quantity_value]
                        ELSE S.arr,
              bitset |-> IF price_value < kMaxBitPosition /\ quantity_value # Zero32
                           THEN SetBit(S.bitset, price_value)
                           ELSE S.bitset],
             price, qty, count, i + 1)

\* one loop of ApplySnapshot, from index i on; S = [arr, bitset] of one side
RECURSIVE LoadLevels(_, _, _, _, _)
LoadLevels(S, price, qty, count, i) ==
  IF ~(i < count) THEN S
  ELSE LET price_value == price[i]
           quantity_value == qty[i]
       IN  LoadLevels(
             IF price_value < kArraySize
               THEN [arr |-> [S.arr EXCEPT ![price_value] = quantity_value],
                     \* quantity_value > 0U
                     bitset |-> IF quantity_value # Zero32
                                  THEN SetBit(S.bitset, price_value)
                                  ELSE S.bitset]
               ELSE S,
             price, qty, count, i + 1)

\* mutant of ApplySnapshotBook: the snapshot is merged into the book as a
\* batch of deltas (no reset, quantities added)
RECURSIVE MergeLevels(_, _, _, _, _)
MergeLevels(S, price, qty, count, i) ==
  IF ~(i < count) THEN S
  ELSE LET price_value == price[i]
           arr == [S.arr EXCEPT ![price_value] = Add32(S.arr[price_value], qty[i])]
       IN  MergeLevels(
             IF price_value < kArraySize
               THEN [arr |-> arr,
                     bitset |-> IF arr[price_value] # Zero32
                                  THEN SetBit(S.bitset, price_value)
                                  ELSE ClearBit(S.bitset, price_value)]
               ELSE S,
             price, qty, count, i + 1)

ApplySnapshotBook_Merge(B, snap) ==
  LET yes == MergeLevels([arr |-> B.bids_, bitset |-> B.bids_bitset_],
                         snap.yes_price, snap.yes_qty, snap.yes_count, 0)
      no == MergeLevels([arr |-> B.asks_, bitset |-> B.asks_bitset_],
                        snap.no_price, snap.no_qty, snap.no_count, 0)
  IN  [bids_ |-> yes.arr, asks_ |-> no.arr,
       bids_bitset_ |-> yes.bitset, asks_bitset_ |-> no.bitset]

ApplySnapshotBook(B, snap) ==
  LET R == ResetBook(B)
      yes == LoadLevels([arr |-> R.bids_, bitset |-> R.bids_bitset_],
                        snap.yes_price, snap.yes_qty, snap.yes_count, 0)
      no == LoadLevels([arr |-> R.asks_, bitset |-> R.asks_bitset_],
                       snap.no_price, snap.no_qty, snap.no_count, 0)
  IN  [bids_ |-> yes.arr, asks_ |-> no.arr,
       bids_bitset_ |-> yes.bitset, asks_bitset_ |-> no.bitset]

(***************************************************************************)
(* ApplyDelta                                                              *)
(***************************************************************************)
\* mutant of DeltaLevel: the bit is set when the level becomes non-zero and
\* never cleared
DeltaLevel_NeverClears(S, price_value, delta_value) ==
  LET arr == [S.arr EXCEPT ![price_value] = Add32(S.arr[price_value], U32(delta_value))]
  IN  [arr |-> arr,
       bitset |-> IF arr[price_value] = Zero32
                    THEN S.bitset
                    ELSE SetBit(S.bitset, price_value)]

\* mutant of DeltaLevel: the bit is handled as ApplyTrade handles it, cleared
\* when the level becomes zero and otherwise left alone
DeltaLevel_ClearOnly(S, price_value, delta_value) ==
  LET arr == [S.arr EXCEPT ![price_value] = Add32(S.arr[price_value], U32(delta_value))]
  IN  [arr |-> arr,
       bitset |-> IF arr[price_value] = Zero32
                    THEN ClearBit(S.bitset, price_value)
                    ELSE S.bitset]

\* mutant of DeltaLevel: a negative delta larger than the level leaves zero
\* instead of wrapping
DeltaLevel_Saturating(S, price_value, delta_value) ==
  LET old == S.arr[price_value]
      new == IF delta_value < 0 /\ old.hi = 0 /\ old.lo < 0 - delta_value
               THEN Zero32
               ELSE Add32(old, U32(delta_value))
      arr == [S.arr EXCEPT ![price_value] = new]
  IN  [arr |-> arr,
       bitset |-> IF arr[price_value] = Zero32
                    THEN ClearBit(S.bitset, price_value)
                    ELSE SetBit(S.bitset, price_value)]

\* array[price] += delta, then the bit recomputed from the new value
DeltaLevel(S, price_value, delta_value) ==
  LET arr == [S.arr EXCEPT ![price_value] = Add32(S.arr[price_value], U32(delta_value))]
  IN  [arr |-> arr,
       bitset |-> IF arr[price_value] = Zero32
                    THEN ClearBit(S.bitset, price_value)
                    ELSE SetBit(S.bitset, price_value)]

\* mutant of ApplyDeltaBook: an out-of-range price is clamped to the last
\* level instead of being discarded
ApplyDeltaBook_Clamp(B, msg) ==
  LET price_value == IF msg.price >= kArraySize THEN kArraySize - 1 ELSE msg.price
      delta_value == msg.delta
  IN  IF msg.side = "kYes"
        THEN LET S == DeltaLevel([arr |-> B.bids_, bitset |-> B.bids_bitset_],
                                 price_value, delta_value)
             IN  [B EXCEPT !.bids_ = S.arr, !.bids_bitset_ = S.bitset]
      ELSE IF msg.side = "kNo"
        THEN LET S == DeltaLevel([arr |-> B.asks_, bitset |-> B.asks_bitset_],
                                 price_value, delta_value)
             IN  [B EXCEPT !.asks_ = S.arr, !.asks_bitset_ = S.bitset]
      ELSE B

\* mutant of ApplyDeltaBook: every side that is not kYes is taken as kNo
ApplyDeltaBook_ElseIsNo(B, msg) ==
  LET price_value == msg.price
      delta_value == msg.delta
  IN  IF price_value >= kArraySize THEN B
      ELSE IF msg.side = "kYes"
        THEN LET S == DeltaLevel([arr |-> B.bids_, bitset |-> B.bids_bitset_],
                                 price_value, delta_value)
             IN  [B EXCEPT !.bids_ = S.arr, !.bids_bitset_ = S.bitset]
      ELSE LET S == DeltaLevel([arr |-> B.asks_, bitset |-> B.asks_bitset_],
                               price_value, delta_value)
           IN  [B EXCEPT !.asks_ = S.arr, !.asks_bitset_ = S.bitset]

ApplyDeltaBook(B, msg) ==
  LET price_value == msg.price
      delta_value == msg.delta
  IN  IF price_value >= kArraySize THEN B
      ELSE IF msg.side = "kYes"
        THEN LET S == DeltaLevel([arr |-> B.bids_, bitset |-> B.bids_bitset_],
                                 price_value, delta_value)
             IN  [B EXCEPT !.bids_ = S.arr, !.bids_bitset_ = S.bitset]
      ELSE IF msg.side = "kNo"
        THEN LET S == DeltaLevel([arr |-> B.asks_, bitset |-> B.asks_bitset_],
                                 price_value, delta_value)
             IN  [B EXCEPT !.asks_ = S.arr, !.asks_bitset_ = S.bitset]
      ELSE B

(***************************************************************************)
(* ApplyTrade                                                              *)
(***************************************************************************)
\* mutant of TradeLevel: the bit is recomputed from the new value, as
\* ApplyDelta does
TradeLevel_Recompute(S, price_value, remove_qty) ==
  IF price_value < kArraySize
    THEN LET arr == [S.arr EXCEPT ![price_value] = Sub32(S.arr[price_value], U32(remove_qty))]
         IN  [arr |-> arr,
              bitset |-> IF arr[price_value] = Zero32
                           THEN ClearBit(S.bitset, price_value)
                           ELSE SetBit(S.bitset, price_value)]
    ELSE S

\* array[price] -= remove_qty, the bit cleared only when the result is zero
TradeLevel(S, price_value, remove_qty) ==
  IF price_value < kArraySize
    THEN LET arr == [S.arr EXCEPT ![price_value] = Sub32(S.arr[price_value], U32(remove_qty))]
         IN  [arr |-> arr,
              bitset |-> IF arr[price_value] = Zero32
                           THEN ClearBit(S.bitset, price_value)
                           ELSE S.bitset]
    ELSE S

\* mutant of ApplyTradeBook: the trade consumes the taker's own side
ApplyTradeBook_SameSide(B, trade) ==
  LET remove_qty == trade.count
  IN  IF remove_qty <= 0 THEN B
      ELSE IF trade.taker_side = "kYes"
        THEN LET S == TradeLevel([arr |-> B.bids_, bitset |-> B.bids_bitset_],
                                 trade.yes_price, remove_qty)
             IN  [B EXCEPT !.bids_ = S.arr, !.bids_bitset_ = S.bitset]
      ELSE IF trade.taker_side = "kNo"
        THEN LET S == TradeLevel([arr |-> B.asks_, bitset |-> B.asks_bitset_],
                                 trade.no_price, remove_qty)
             IN  [B EXCEPT !.asks_ = S.arr, !.asks_bitset_ = S.bitset]
      ELSE B

ApplyTradeBook(B, trade) ==
  LET remove_qty == trade.count
  IN  IF remove_qty <= 0 THEN B
      ELSE IF trade.taker_side = "kYes"
        THEN LET S == TradeLevel([arr |-> B.asks_, bitset |-> B.asks_bitset_],
                                 trade.no_price, remove_qty)
             IN  [B EXCEPT !.asks_ = S.arr, !.asks_bitset_ = S.bitset]
      ELSE IF trade.taker_side = "kNo"
        THEN LET S == TradeLevel([arr |-> B.bids_, bitset |-> B.bids_bitset_],
                                 trade.yes_price, remove_qty)
             IN  [B EXCEPT !.bids_ = S.arr, !.bids_bitset_ = S.bitset]
      ELSE B

(***************************************************************************)
(* Queries                                                                 *)
(***************************************************************************)
\* the pair returned for "no valid bid / ask"
NoLevel == <<0, Zero32>>

BestBid(B) ==
  LET idx == HighestSetBit(B.bids_bitset_)
  IN  IF idx >= 0 /\ idx < kArraySize THEN <<idx, B.bids_[idx]>> ELSE NoLevel

BestAsk(B) ==
  LET idx == LowestSetBit(B.asks_bitset_)
  IN  IF idx >= 0 /\ idx < kArraySize THEN <<idx, B.asks_[idx]>> ELSE NoLevel

\* result.reserve(n): n is converted to size_t, so a negative n asks for more
\* than max_size() elements and std::vector throws std::length_error
ReserveThrows(n) == n < 0

RECURSIVE TopNBidsLoop(_, _, _, _)
TopNBidsLoop(B, mask, n, result) ==
  IF ~(n > 0) THEN result
  ELSE LET idx == HighestSetBit(mask)
       IN  IF idx < 0 \/ idx >= kArraySize THEN result
           ELSE TopNBidsLoop(B, ClearBit(mask, idx), n - 1,
                             Append(result, <<idx, B.bids_[idx]>>))

RECURSIVE TopNAsksLoop(_, _, _, _)
TopNAsksLoop(B, mask, n, result) ==
  IF ~(n > 0) THEN result
  ELSE LET idx == LowestSetBit(mask)
       IN  IF idx < 0 \/ idx >= kArraySize THEN result
           ELSE TopNAsksLoop(B, ClearBit(mask, idx), n - 1,
                             Append(result, <<idx, B.asks_[idx]>>))

\* the mask left by the loop of GetTopNBids / GetTopNAsks
RECURSIVE TopNBidsMask(_, _)
TopNBidsMask(mask, n) ==
  IF ~(n > 0) THEN mask
  ELSE LET idx == HighestSetBit(mask)
       IN  IF idx < 0 \/ idx >= kArraySize THEN mask
           ELSE TopNBidsMask(ClearBit(mask, idx), n - 1)

RECURSIVE TopNAsksMask(_, _)
TopNAsksMask(mask, n) ==
  IF ~(n > 0) THEN mask
  ELSE LET idx == LowestSetBit(mask)
       IN  IF idx < 0 \/ idx >= kArraySize THEN mask
           ELSE TopNAsksMask(ClearBit(mask, idx), n - 1)

\* mutant of AfterGetTopNBids: the loop clears the bits of the member
\* bids_bitset_ itself
AfterGetTopNBids_NoCopy(B, n) ==
  IF n < 0 THEN B ELSE [B EXCEPT !.bids_bitset_ = TopNBidsMask(B.bids_bitset_, n)]

\* the data members after GetTopNBids(n): mask is a local copy of bids_bitset_
\* and the member function is const, so the loop's ClearBit never reaches them
AfterGetTopNBids(B, n) == B

\* the data members after GetTopNAsks(n), as for the bids
AfterGetTopNAsks(B, n) == B

\* [thrown, value]: the exception that leaves the call, or the vector returned
GetTopNBids(B, n) ==
  IF ReserveThrows(n) THEN [thrown |-> "std::length_error", value |-> <<>>]
  ELSE [thrown |-> "none", value |-> TopNBidsLoop(B, B.bids_bitset_, n, <<>>)]

GetTopNAsks(B, n) ==
  IF ReserveThrows(n) THEN [thrown |-> "std::length_error", value |-> <<>>]
  ELSE [thrown |-> "none", value |-> TopNAsksLoop(B, B.asks_bitset_, n, <<>>)]

(***************************************************************************)
(* The state machine: one action per member function.  last records the    *)
(* call made last (and what a query returned), prev the book before it.    *)
(***************************************************************************)
SetBook(B) ==
  /\ bids_' = B.bids_
  /\ asks_' = B.asks_
  /\ bids_bitset_' = B.bids_bitset_
  /\ asks_bitset_' = B.asks_bitset_

Called(l) ==
  /\ calls < MaxCalls
  /\ calls' = calls + 1
  /\ prev' = Book
  /\ last' = l

Init ==
  /\ bids_ = EmptyBook.bids_
  /\ asks_ = EmptyBook.asks_
  /\ bids_bitset_ = EmptyBook.bids_bitset_
  /\ asks_bitset_ = EmptyBook.asks_bitset_
  /\ last = [op |-> "OrderBook"]
  /\ prev = EmptyBook
  /\ calls = 0

ApplySnapshot ==
  \E c \in SnapCounts :
    \E yes \in [0 .. (c[1] - 1) -> SnapLevels], no \in [0 .. (c[2] - 1) -> SnapLevels] :
      LET snap == SnapshotOf(yes, c[1], no, c[2])
      IN  /\ SetBook(ApplySnapshotBook(Book, snap))
          /\ Called([op |-> "ApplySnapshot", snap |-> snap])

ApplyDelta ==
  \E side \in Sides, price \in Prices, delta \in Deltas :
    LET msg == [price |-> price, delta |-> delta, side |-> side]
    IN  /\ SetBook(ApplyDeltaBook(Book, msg))
        /\ Called([op |-> "ApplyDelta", msg |-> msg])

ApplyTrade ==
  \E taker_side \in Sides, yes_price \in TradePrices, no_price \in TradePrices,
     count \in Counts :
    LET trade == [yes_price |-> yes_price, no_price |-> no_price,
                  count |-> count, taker_side |-> taker_side]
    IN  /\ SetBook(ApplyTradeBook(Book, trade))
        /\ Called([op |-> "ApplyTrade", trade |-> trade])

QueryBestBid ==
  /\ Called([op |-> "BestBid", result |-> BestBid(Book)])
  /\ UNCHANGED <<bids_, asks_, bids_bitset_, asks_bitset_>>

QueryBestAsk ==
  /\ Called([op |-> "BestAsk", result |-> BestAsk(Book)])
  /\ UNCHANGED <<bids_, asks_, bids_bitset_, asks_bitset_>>

QueryGetTopNBids ==
  \E n \in Ns :
    /\ Called([op |-> "GetTopNBids", n |-> n, result |-> GetTopNBids(Book, n)])
    /\ SetBook(AfterGetTopNBids(Book, n))

QueryGetTopNAsks ==
  \E n \in Ns :
    /\ Called([op |-> "GetTopNAsks", n |-> n, result |-> GetTopNAsks(Book, n)])
    /\ SetBook(AfterGetTopNAsks(Book, n))

Next ==
  \/ ApplySnapshot
  \/ ApplyDelta
  \/ ApplyTrade
  \/ QueryBestBid
  \/ QueryBestAsk
  \/ QueryGetTopNBids
  \/ QueryGetTopNAsks

Spec == Init /\ [][Next]_vars

(***************************************************************************)
(* Bitset128 on its own: bids_bitset_ is the set under test, driven by     *)
(* calls of its five member functions at positions around the word         *)
(* boundary, the last bit and beyond; the arrays and the other set keep    *)
(* the values the constructor gave them.  last is the call made last and   *)
(* what it returned, prev the members before it.                           *)
(***************************************************************************)
\* unsigned int pos: both ends of each word, the first positions outside the
\* set, and a large one
BitPositions == {0, 1, 63, 64, 65, kMaxBitPosition - 1,
                 kMaxBitPosition, kMaxBitPosition + 1, kMaxBitPosition + 64, 2147483647}

BitsetCalled(l) ==
  /\ last' = l
  /\ prev' = Book
  /\ UNCHANGED <<bids_, asks_, asks_bitset_, calls>>

BitsetInit ==
  /\ bids_ = EmptyBook.bids_
  /\ asks_ = EmptyBook.asks_
  /\ bids_bitset_ = EmptyBitset
  /\ asks_bitset_ = EmptyBitset
  /\ last = [op |-> "Bitset128"]
  /\ prev = EmptyBook
  /\ calls = 0

BitsetSetBit ==
  \E pos \in BitPositions :
    /\ bids_bitset_' = SetBit(bids_bitset_, pos)
    /\ BitsetCalled([op |-> "SetBit", pos |-> pos])

BitsetClearBit ==
  \E pos \in BitPositions :
    /\ bids_bitset_' = ClearBit(bids_bitset_, pos)
    /\ BitsetCalled([op |-> "ClearBit", pos |-> pos])

BitsetTestBit ==
  \E pos \in BitPositions :
    /\ bids_bitset_' = bids_bitset_
    /\ BitsetCalled([op |-> "TestBit", pos |-> pos, result |-> TestBit(bids_bitset_, pos)])

BitsetHighestSetBit ==
  /\ bids_bitset_' = bids_bitset_
  /\ BitsetCalled([op |-> "HighestSetBit", result |-> HighestSetBit(bids_bitset_)])

BitsetLowestSetBit ==
  /\ bids_bitset_' = bids_bitset_
  /\ BitsetCalled([op |-> "LowestSetBit", result |-> LowestSetBit(bids_bitset_)])

BitsetNext ==
  \/ BitsetSetBit
  \/ BitsetClearBit
  \/ BitsetTestBit
  \/ BitsetHighestSetBit
  \/ BitsetLowestSetBit

BitsetSpec == BitsetInit /\ [][BitsetNext]_vars

(***************************************************************************)
(* Vocabulary of the properties                                            *)
(***************************************************************************)
Positions == 0 .. (kMaxBitPosition - 1)

\* the levels of an array that hold a non-zero quantity
NonZero(arr) == {p \in Levels : arr[p] # Zero32}

\* the positions whose bit is set
Present(bs) == {p \in Positions : TestBit(bs, p)}

\* a < b as unsigned int
Less32(a, b) == a.hi < b.hi \/ (a.hi = b.hi /\ a.lo < b.lo)

\* the (side, price) cells in which two books differ, in quantity or in bit
ChangedCells(A, B) ==
  {c \in {"bids", "asks"} \X Positions :
     IF c[1] = "bids"
       THEN (c[2] \in Levels /\ A.bids_[c[2]] # B.bids_[c[2]])
            \/ TestBit(A.bids_bitset_, c[2]) # TestBit(B.bids_bitset_, c[2])
       ELSE (c[2] \in Levels /\ A.asks_[c[2]] # B.asks_[c[2]])
            \/ TestBit(A.asks_bitset_, c[2]) # TestBit(B.asks_bitset_, c[2])}

\* the prices of the first count entries of a snapshot list
Listed(price, count) == {price[i] : i \in 0 .. (count - 1)}

\* the quantity of the last of the first count entries whose price is p
LastQty(price, qty, count, p) ==
  LET I == {i \in 0 .. (count - 1) : price[i] = p}
  IN  IF I = {} THEN Zero32 ELSE qty[MaxOf(I)]

\* the price a trade consumes at: no_price for a yes taker, yes_price for a no taker
ConsumedPrice(trade) ==
  IF trade.taker_side = "kYes" THEN trade.no_price ELSE trade.yes_price

\* the levels S in descending (dir = -1) or ascending (dir = 1) order of price,
\* each with its quantity in arr
RECURSIVE SortedLevels(_, _, _)
SortedLevels(S, arr, dir) ==
  IF S = {} THEN <<>>
  ELSE LET p == IF dir < 0 THEN MaxOf(S) ELSE MinOf(S)
       IN  <<<<p, arr[p]>>>> \o SortedLevels(S \ {p}, arr, dir)

\* the first min(max(n, 0), Len(s)) entries of s
Prefix(s, n) ==
  LET m == IF n < 0 THEN 0 ELSE IF n > Len(s) THEN Len(s) ELSE n
  IN  SubSeq(s, 1, m)

(***************************************************************************)
(* C1.  After every call, on each side and at every price p of the book,   *)
(* presence bit p is set iff array[p] is non-zero.                         *)
(***************************************************************************)
C1_PresenceIffNonZero ==
  \A p \in Levels :
    /\ TestBit(bids_bitset_, p) <=> (bids_[p] # Zero32)
    /\ TestBit(asks_bitset_, p) <=> (asks_[p] # Zero32)

(***************************************************************************)
(* C2.  Whenever some bid quantity is non-zero, BestBid returns            *)
(* (p, bids[p]) for the largest p with a non-zero bid quantity; whenever   *)
(* some ask quantity is non-zero, BestAsk returns (p, asks[p]) for the     *)
(* smallest such p (the linear scan of the arrays).                        *)
(***************************************************************************)
C2_BestMatchesLinearScan ==
  /\ NonZero(bids_) # {} =>
       BestBid(Book) = <<MaxOf(NonZero(bids_)), bids_[MaxOf(NonZero(bids_))]>>
  /\ NonZero(asks_) # {} =>
       BestAsk(Book) = <<MinOf(NonZero(asks_)), asks_[MinOf(NonZero(asks_))]>>

(***************************************************************************)
(* C3.  ApplySnapshot is idempotent: applying the snapshot S again to the  *)
(* book that ApplySnapshot(S) left gives that same book (both arrays and   *)
(* both presence sets), whatever the book was before.                      *)
(***************************************************************************)
C3_SnapshotIdempotent ==
  last.op = "ApplySnapshot" => ApplySnapshotBook(Book, last.snap) = Book

\* a snapshot that loaded some level was applied to a book that was not empty
C3_Witness ==
  /\ last.op = "ApplySnapshot"
  /\ prev # EmptyBook
  /\ Book # EmptyBook
  /\ Book # prev

(***************************************************************************)
(* C4.  The book after ApplySnapshot(S) does not depend on the book        *)
(* before: it is the book S gives on an empty book, and every price not    *)
(* listed in S has quantity zero and a clear bit on both sides.  No        *)
(* ApplyDelta or ApplyTrade changes more than one (side, price) cell.      *)
(***************************************************************************)
C4_SnapshotReplacesAll ==
  /\ last.op = "ApplySnapshot" =>
       /\ Book = ApplySnapshotBook(EmptyBook, last.snap)
       /\ \A p \in Positions \ Listed(last.snap.yes_price, last.snap.yes_count) :
            /\ p \in Levels => bids_[p] = Zero32
            /\ ~TestBit(bids_bitset_, p)
       /\ \A p \in Positions \ Listed(last.snap.no_price, last.snap.no_count) :
            /\ p \in Levels => asks_[p] = Zero32
            /\ ~TestBit(asks_bitset_, p)
  /\ last.op \in {"ApplyDelta", "ApplyTrade"} =>
       Cardinality(ChangedCells(prev, Book)) <= 1

\* a snapshot was applied to a book holding a level the snapshot does not list
C4_Witness ==
  /\ last.op = "ApplySnapshot"
  /\ \E p \in Levels \ Listed(last.snap.yes_price, last.snap.yes_count) :
       TestBit(prev.bids_bitset_, p) /\ prev.bids_[p] # Zero32

(***************************************************************************)
(* C5.  After ApplySnapshot(S), on each side and at each price p of the    *)
(* book, array[p] is the quantity of the last pair of that side's list     *)
(* whose price is p (zero if there is none; duplicates are not summed) and *)
(* bit p is set iff that final quantity is > 0.  Pairs whose price is      *)
(* >= kMaxBookLevels change neither array nor presence set.                *)
(***************************************************************************)
C5_SnapshotLastWins ==
  last.op = "ApplySnapshot" =>
    LET snap == last.snap
    IN  /\ \A p \in Levels :
             LET y == LastQty(snap.yes_price, snap.yes_qty, snap.yes_count, p)
                 n == LastQty(snap.no_price, snap.no_qty, snap.no_count, p)
             IN  /\ bids_[p] = y
                 /\ TestBit(bids_bitset_, p) <=> (y # Zero32)
                 /\ asks_[p] = n
                 /\ TestBit(asks_bitset_, p) <=> (n # Zero32)
        /\ \A p \in Positions \ Levels :
             ~TestBit(bids_bitset_, p) /\ ~TestBit(asks_bitset_, p)

\* a call that was made with an out-of-range price changed nothing
LastCallIgnored ==
  (\/ last.op = "ApplyDelta" /\ last.msg.price >= kMaxBookLevels
   \/ /\ last.op = "ApplyTrade"
      /\ last.trade.taker_side \in {"kYes", "kNo"}
      /\ ConsumedPrice(last.trade) >= kMaxBookLevels)
  => /\ Book = prev
     /\ BestBid(Book) = BestBid(prev)
     /\ BestAsk(Book) = BestAsk(prev)
     /\ \A n \in Ns : /\ GetTopNBids(Book, n) = GetTopNBids(prev, n)
                      /\ GetTopNAsks(Book, n) = GetTopNAsks(prev, n)

\* nor would such a call change the current book, for prices further out of
\* range as well
FarPricesIgnored ==
  \A far \in FarPrices :
    /\ \A side \in {"kYes", "kNo"} :
         ApplyDeltaBook(Book, [price |-> far, delta |-> 1, side |-> side]) = Book
    /\ ApplyTradeBook(Book, [yes_price |-> 0, no_price |-> far,
                             count |-> 1, taker_side |-> "kYes"]) = Book
    /\ ApplyTradeBook(Book, [yes_price |-> far, no_price |-> 0,
                             count |-> 1, taker_side |-> "kNo"]) = Book

(***************************************************************************)
(* C6.  ApplyDelta with price >= kMaxBookLevels, and ApplyTrade whose      *)
(* consumed price (no_price for a yes taker, yes_price for a no taker) is  *)
(* >= kMaxBookLevels, leave both arrays and both presence sets, hence the  *)
(* results of BestBid, BestAsk, GetTopNBids and GetTopNAsks, as they were. *)
(***************************************************************************)
C6_OutOfRangeIgnored == LastCallIgnored /\ FarPricesIgnored

\* a delta with an out-of-range price and a defined side, non-zero delta, was
\* applied to a book holding levels on that side
C6_Witness ==
  /\ last.op = "ApplyDelta"
  /\ last.msg.price >= kMaxBookLevels
  /\ last.msg.side = "kYes"
  /\ Present(prev.bids_bitset_) # {}

(***************************************************************************)
(* C7.  For every n, GetTopNBids(n) returns the first min(max(n, 0), k)    *)
(* entries of the k levels with a non-zero bid quantity in strictly        *)
(* descending price, each with its quantity; GetTopNAsks(n) the same for   *)
(* asks in strictly ascending price.  n <= 0 and the empty book give the   *)
(* empty sequence.                                                         *)
(***************************************************************************)
C7_TopNIsSortedPrefix ==
  \A n \in Ns :
    /\ GetTopNBids(Book, n) =
         [thrown |-> "none", value |-> Prefix(SortedLevels(NonZero(bids_), bids_, -1), n)]
    /\ GetTopNAsks(Book, n) =
         [thrown |-> "none", value |-> Prefix(SortedLevels(NonZero(asks_), asks_, 1), n)]

(***************************************************************************)
(* C8.  What BestBid (BestAsk) returns when the side's presence set is     *)
(* empty differs from everything it returns when some bit is set: no       *)
(* state with a bit set returns what the empty book (a reachable state     *)
(* with no bit set) returns.                                               *)
(***************************************************************************)
C8_EmptyDistinguishable ==
  /\ Present(bids_bitset_) # {} => BestBid(Book) # BestBid(EmptyBook)
  /\ Present(asks_bitset_) # {} => BestAsk(Book) # BestAsk(EmptyBook)

(***************************************************************************)
(* C9.  ApplyTrade with count > 0 and an in-domain consumed price takes    *)
(* liquidity from the side opposite the taker only: a yes taker decrements *)
(* asks[no_price] by count and leaves the bid side and every other ask     *)
(* level unchanged (yes_price is ignored); a no taker does the same to     *)
(* bids[yes_price].  When count equals the resting quantity the level      *)
(* becomes 0 and its bit is cleared; when count is smaller, a bit that     *)
(* was set stays set.                                                      *)
(***************************************************************************)
TradeTook(arr, bs, oldArr, oldBs, p, count) ==
  /\ arr[p] = Sub32(oldArr[p], U32(count))
  /\ \A q \in Levels \ {p} : arr[q] = oldArr[q]
  /\ \A q \in Positions \ {p} : TestBit(bs, q) = TestBit(oldBs, q)
  /\ U32(count) = oldArr[p] => arr[p] = Zero32 /\ ~TestBit(bs, p)
  /\ Less32(U32(count), oldArr[p]) /\ TestBit(oldBs, p) => TestBit(bs, p)

C9_TradeConsumesOpposite ==
  (/\ last.op = "ApplyTrade"
   /\ last.trade.count > 0
   /\ last.trade.taker_side \in {"kYes", "kNo"}
   /\ ConsumedPrice(last.trade) < kMaxBookLevels)
  => LET t == last.trade
     IN  IF t.taker_side = "kYes"
           THEN /\ TradeTook(asks_, asks_bitset_, prev.asks_, prev.asks_bitset_,
                             t.no_price, t.count)
                /\ bids_ = prev.bids_
                /\ bids_bitset_ = prev.bids_bitset_
                /\ \A y \in Prices : ApplyTradeBook(prev, [t EXCEPT !.yes_price = y]) = Book
           ELSE /\ TradeTook(bids_, bids_bitset_, prev.bids_, prev.bids_bitset_,
                             t.yes_price, t.count)
                /\ asks_ = prev.asks_
                /\ asks_bitset_ = prev.asks_bitset_
                /\ \A n \in Prices : ApplyTradeBook(prev, [t EXCEPT !.no_price = n]) = Book

\* a yes taker took the whole resting ask quantity at no_price while a bid
\* rested at yes_price
C9_Witness ==
  /\ last.op = "ApplyTrade"
  /\ last.trade.taker_side = "kYes"
  /\ last.trade.count > 0
  /\ last.trade.no_price < kMaxBookLevels
  /\ last.trade.yes_price < kMaxBookLevels
  /\ prev.asks_[last.trade.no_price] = U32(last.trade.count)
  /\ TestBit(prev.asks_bitset_, last.trade.no_price)
  /\ TestBit(prev.bids_bitset_, last.trade.yes_price)
  /\ ~TestBit(asks_bitset_, last.trade.no_price)

(***************************************************************************)
(* C10.  ApplyDelta(side, price, delta) with a defined side and            *)
(* price < kMaxBookLevels sets that side's array[price] to old + delta in  *)
(* 32-bit unsigned arithmetic, leaves bit price set iff the new value is   *)
(* non-zero, and leaves every other level of that side and the whole       *)
(* opposite side unchanged.  So a delta of -q on a level holding q clears  *)
(* its bit, and BestBid / BestAsk is then the best of the other levels     *)
(* whose bit is set.                                                       *)
(***************************************************************************)
DeltaDid(arr, bs, oldArr, oldBs, p, delta) ==
  /\ arr[p] = Add32(oldArr[p], U32(delta))
  /\ TestBit(bs, p) <=> (arr[p] # Zero32)
  /\ \A q \in Levels \ {p} : arr[q] = oldArr[q]
  /\ \A q \in Positions \ {p} : TestBit(bs, q) = TestBit(oldBs, q)

C10_DeltaUpdatesOneLevel ==
  (/\ last.op = "ApplyDelta"
   /\ last.msg.side \in {"kYes", "kNo"}
   /\ last.msg.price < kMaxBookLevels)
  => LET p == last.msg.price
         cleared(oldArr) == oldArr[p] # Zero32 /\ Add32(oldArr[p], U32(last.msg.delta)) = Zero32
     IN  IF last.msg.side = "kYes"
           THEN /\ DeltaDid(bids_, bids_bitset_, prev.bids_, prev.bids_bitset_, p, last.msg.delta)
                /\ asks_ = prev.asks_
                /\ asks_bitset_ = prev.asks_bitset_
                /\ cleared(prev.bids_) =>
                     LET R == Present(prev.bids_bitset_) \ {p}
                     IN  /\ ~TestBit(bids_bitset_, p)
                         /\ BestBid(Book) = IF R = {} THEN NoLevel
                                            ELSE <<MaxOf(R), prev.bids_[MaxOf(R)]>>
           ELSE /\ DeltaDid(asks_, asks_bitset_, prev.asks_, prev.asks_bitset_, p, last.msg.delta)
                /\ bids_ = prev.bids_
                /\ bids_bitset_ = prev.bids_bitset_
                /\ cleared(prev.asks_) =>
                     LET R == Present(prev.asks_bitset_) \ {p}
                     IN  /\ ~TestBit(asks_bitset_, p)
                         /\ BestAsk(Book) = IF R = {} THEN NoLevel
                                            ELSE <<MinOf(R), prev.asks_[MinOf(R)]>>

\* a delta of -q emptied the best bid level, which held q, and BestBid moved
\* to the bid level below it
C10_Witness ==
  /\ last.op = "ApplyDelta"
  /\ last.msg.side = "kYes"
  /\ last.msg.price < kMaxBookLevels
  /\ last.msg.delta < 0
  /\ prev.bids_[last.msg.price] = U32(0 - last.msg.delta)
  /\ BestBid(prev)[1] = last.msg.price
  /\ ~TestBit(bids_bitset_, last.msg.price)
  /\ BestBid(Book)[1] < last.msg.price
  /\ BestBid(Book)[2] # Zero32

(***************************************************************************)
(* C11.  Discarded messages change nothing: ApplyTrade with count <= 0     *)
(* (any side, any prices), ApplyTrade with an undefined taker side and     *)
(* ApplyDelta with an undefined side (any price, any delta) leave both     *)
(* arrays and both presence sets as they were before the call.             *)
(***************************************************************************)
\* counts below zero, down to the most negative int but one
NegativeCounts == {-1, -2147483647}

\* the call made last was one of the discarded ones, and changed nothing
LastCallDiscarded ==
  (\/ /\ last.op = "ApplyTrade"
      /\ (last.trade.count <= 0 \/ last.trade.taker_side = "kUndefined")
   \/ /\ last.op = "ApplyDelta"
      /\ last.msg.side = "kUndefined")
  => Book = prev

\* nor would a trade with a negative count change the current book
NegativeCountsDiscarded ==
  \A count \in NegativeCounts, taker_side \in Sides :
    ApplyTradeBook(Book, [yes_price |-> kArraySize - 1, no_price |-> kArraySize - 1,
                          count |-> count, taker_side |-> taker_side]) = Book

C11_DiscardedChangeNothing == LastCallDiscarded /\ NegativeCountsDiscarded

\* a delta with an undefined side and an in-domain price was applied to a book
\* with a level resting at that price on each side
C11_Witness ==
  /\ last.op = "ApplyDelta"
  /\ last.msg.side = "kUndefined"
  /\ last.msg.price < kMaxBookLevels
  /\ TestBit(prev.bids_bitset_, last.msg.price)
  /\ TestBit(prev.asks_bitset_, last.msg.price)

(***************************************************************************)
(* C12.  The four queries are read-only: BestBid, BestAsk, GetTopNBids(n)  *)
(* and GetTopNAsks(n) leave both arrays and both live presence sets        *)
(* unchanged (the bits cleared while collecting the top-N levels are       *)
(* cleared in a local copy), so the same query made again gives what the   *)
(* call gave.                                                              *)
(***************************************************************************)
C12_QueriesReadOnly ==
  /\ last.op \in {"BestBid", "BestAsk", "GetTopNBids", "GetTopNAsks"} => Book = prev
  /\ last.op = "BestBid" => BestBid(Book) = last.result
  /\ last.op = "BestAsk" => BestAsk(Book) = last.result
  /\ last.op = "GetTopNBids" => GetTopNBids(Book, last.n) = last.result
  /\ last.op = "GetTopNAsks" => GetTopNAsks(Book, last.n) = last.result

\* GetTopNBids collected a level, so its loop cleared a bit of the mask
C12_Witness ==
  /\ last.op = "GetTopNBids"
  /\ last.n >= 1
  /\ Len(last.result.value) >= 1

(***************************************************************************)
(* C13.  Bitset128: SetBit(pos) and ClearBit(pos) with pos >= 128 leave    *)
(* both words unchanged and TestBit(pos) with pos >= 128 returns false;    *)
(* with pos in [0, 128), SetBit / ClearBit change bit pos only (in the low *)
(* word for pos < 64, in the high word otherwise), leave the other 127     *)
(* bits as they were, and TestBit(pos) is then true after SetBit and false *)
(* after ClearBit.                                                         *)
(***************************************************************************)
\* the set under test and its value before the last call
Bits == bids_bitset_

OldBits == prev.bids_bitset_

\* bit pos alone went from the old set to the new one, in the word that holds it
OnlyBitChanged(pos) ==
  /\ \A q \in Positions \ {pos} : TestBit(Bits, q) = TestBit(OldBits, q)
  /\ pos < 64 => Bits.high = OldBits.high
  /\ pos >= 64 => Bits.low = OldBits.low

C13_BitsetRangeChecked ==
  /\ last.op \in {"SetBit", "ClearBit"} /\ last.pos >= kMaxBitPosition => Bits = OldBits
  /\ last.op = "TestBit" /\ last.pos >= kMaxBitPosition => last.result = FALSE
  /\ last.op = "TestBit" => Bits = OldBits
  /\ last.op = "SetBit" /\ last.pos < kMaxBitPosition =>
       OnlyBitChanged(last.pos) /\ TestBit(Bits, last.pos)
  /\ last.op = "ClearBit" /\ last.pos < kMaxBitPosition =>
       OnlyBitChanged(last.pos) /\ ~TestBit(Bits, last.pos)
  /\ \A pos \in BitPositions : pos >= kMaxBitPosition => ~TestBit(Bits, pos)
  /\ Bits.low \subseteq 0 .. 63
  /\ Bits.high \subseteq 0 .. 63

\* SetBit was called with a position beyond the set while the last bit of each
\* word was set
C13_Witness ==
  /\ last.op = "SetBit"
  /\ last.pos >= kMaxBitPosition
  /\ TestBit(OldBits, 63)
  /\ TestBit(OldBits, kMaxBitPosition - 1)

(***************************************************************************)
(* C14.  For every value of the 128-bit set, HighestSetBit() is the        *)
(* largest position p in [0, 128) with TestBit(p) and LowestSetBit() the   *)
(* smallest; both are -1 exactly when no bit is set; with a single bit set *)
(* (bit 127, or bit 63 or 64 at the word boundary) both are that position. *)
(***************************************************************************)
C14_HighestLowestSetBit ==
  LET P == Present(Bits)
  IN  /\ P # {} => HighestSetBit(Bits) = MaxOf(P) /\ LowestSetBit(Bits) = MinOf(P)
      /\ P = {} <=> HighestSetBit(Bits) = -1
      /\ P = {} <=> LowestSetBit(Bits) = -1
      /\ \A p \in Positions :
           P = {p} => HighestSetBit(Bits) = p /\ LowestSetBit(Bits) = p
      /\ last.op = "HighestSetBit" => last.result = HighestSetBit(Bits)
      /\ last.op = "LowestSetBit" => last.result = LowestSetBit(Bits)

\* HighestSetBit was called on a set holding bits of both words, the two at
\* the word boundary among them
C14_Witness ==
  /\ last.op = "HighestSetBit"
  /\ {0, 63, 64} \subseteq Present(Bits)
  /\ last.result = 64

(***************************************************************************)
(* C15.  ApplyTrade changes a presence bit only by clearing it, and only   *)
(* when the quantity left at the consumed level is exactly zero.  When     *)
(* count exceeds the resting quantity q (q = 0 included) the stored        *)
(* quantity becomes (q - count) mod 2^32, which is non-zero, and the       *)
(* level's bit is left as it was before the call: a trade never sets a     *)
(* bit.                                                                    *)
(***************************************************************************)
\* between the old and the new set no bit was set, and one was cleared only at
\* position p with arr[p] zero
OnlyClearedAtZero(arr, bs, oldBs, p) ==
  \A q \in Positions :
    /\ TestBit(bs, q) => TestBit(oldBs, q)
    /\ TestBit(oldBs, q) /\ ~TestBit(bs, q) => q = p /\ q \in Levels /\ arr[q] = Zero32

\* a count above the resting quantity wrapped the level and left its bit alone
Underflowed(arr, bs, oldArr, oldBs, p, count) ==
  Less32(oldArr[p], U32(count)) =>
    /\ arr[p] = Sub32(oldArr[p], U32(count))
    /\ arr[p] # Zero32
    /\ TestBit(bs, p) = TestBit(oldBs, p)

PopCount(bs) == Cardinality(bs.low) + Cardinality(bs.high)

\* every price of a sequence of (price, quantity) pairs is inside the book
PricesInBook(s) == \A i \in 1 .. Len(s) : s[i][1] < kMaxBookLevels

\* the smaller of two numbers
Smaller(a, b) == IF a < b THEN a ELSE b

C16_NoBitBeyondBook ==
  /\ \A p \in kMaxBookLevels .. (kMaxBitPosition - 1) :
       ~TestBit(bids_bitset_, p) /\ ~TestBit(asks_bitset_, p)
  /\ BestBid(Book)[1] < kMaxBookLevels
  /\ BestAsk(Book)[1] < kMaxBookLevels
  /\ HighestSetBit(bids_bitset_) < kArraySize
  /\ LowestSetBit(asks_bitset_) < kArraySize
  /\ \A n \in 0 .. MaxN :
       /\ PricesInBook(GetTopNBids(Book, n).value)
       /\ PricesInBook(GetTopNAsks(Book, n).value)
       /\ Len(GetTopNBids(Book, n).value) = Smaller(n, PopCount(bids_bitset_))
       /\ Len(GetTopNAsks(Book, n).value) = Smaller(n, PopCount(asks_bitset_))

\* a snapshot listed a bid at a price the bitset could hold and the book
\* cannot, with a non-zero quantity, next to a bid inside the book
C16_Witness ==
  /\ last.op = "ApplySnapshot"
  /\ last.snap.yes_count = 2
  /\ \E i \in 0 .. 1 : /\ last.snap.yes_price[i] >= kMaxBookLevels
                       /\ last.snap.yes_price[i] < kMaxBitPosition
                       /\ last.snap.yes_qty[i] # Zero32
  /\ PopCount(bids_bitset_) = 1

(***************************************************************************)
(* C17.  ApplyDelta with a defined side and an in-domain price restores    *)
(* the agreement of array and bit at the cell it touches, whatever the     *)
(* state before: right after ApplyDelta(side, p, d), bit p of that side is *)
(* set iff array[p] is non-zero, even if the two disagreed at that cell    *)
(* before the call.                                                        *)
(***************************************************************************)
C17_DeltaRestoresAgreement ==
  (/\ last.op = "ApplyDelta"
   /\ last.msg.price < kMaxBookLevels)
  => /\ last.msg.side = "kYes" =>
          (TestBit(bids_bitset_, last.msg.price) <=> bids_[last.msg.price] # Zero32)
     /\ last.msg.side = "kNo" =>
          (TestBit(asks_bitset_, last.msg.price) <=> asks_[last.msg.price] # Zero32)

\* the delta was applied to a bid cell holding a non-zero quantity with a
\* clear bit, and left it non-zero
C17_Witness ==
  /\ last.op = "ApplyDelta"
  /\ last.msg.side = "kYes"
  /\ last.msg.price < kMaxBookLevels
  /\ prev.bids_[last.msg.price] # Zero32
  /\ ~TestBit(prev.bids_bitset_, last.msg.price)
  /\ bids_[last.msg.price] # Zero32
  /\ TestBit(bids_bitset_, last.msg.price)

(***************************************************************************)
(* C18.  ApplyDelta calls commute: for any reachable state and any two     *)
(* delta messages d1 and d2 (same or different side and price, any signed  *)
(* deltas), d1 then d2 gives the same arrays and presence sets as d2 then  *)
(* d1.  An ApplyDelta and an ApplyTrade on the same cell need not commute. *)
(***************************************************************************)
\* the delta messages of the model
DeltaMessages == [price : Prices, delta : Deltas, side : Sides]

\* last.msg is d1, applied to prev: whatever d2 follows, the book is the one
\* that d2 followed by d1 gives
C18_DeltasCommute ==
  last.op = "ApplyDelta" =>
    \A d2 \in DeltaMessages :
      ApplyDeltaBook(Book, d2) = ApplyDeltaBook(ApplyDeltaBook(prev, d2), last.msg)

\* a delta emptied a bid cell that the trade of one unit at that cell, made
\* first, would have emptied too: the two orders leave different books
C18_Witness ==
  /\ last.op = "ApplyDelta"
  /\ last.msg.side = "kYes"
  /\ last.msg.price < kMaxBookLevels
  /\ prev.bids_[last.msg.price] # Zero32
  /\ LET trade == [yes_price |-> last.msg.price, no_price |-> last.msg.price,
                   count |-> 1, taker_side |-> "kNo"]
     IN  ApplyTradeBook(Book, trade) # ApplyDeltaBook(ApplyTradeBook(prev, trade), last.msg)

(***************************************************************************)
(* C19.  The best-price and the top-N queries agree in every reachable     *)
(* state: if the bid presence set is non-empty, GetTopNBids(1) is the      *)
(* one-element sequence [BestBid()] and GetTopNBids(n) for n >= 1 starts   *)
(* with BestBid(); likewise GetTopNAsks(n) and BestAsk(); if the presence  *)
(* set is empty, GetTopN returns [] for every n.                           *)
(***************************************************************************)
\* the agreement for one side: top(n) is the query's outcome for n, best the
\* best-price pair, bs the side's presence set
BestLeadsTopN(top(_), best, bs) ==
  /\ Present(bs) # {} =>
       /\ top(1) = [thrown |-> "none", value |-> <<best>>]
       /\ \A n \in Ns : n >= 1 => /\ top(n).thrown = "none"
                                  /\ Len(top(n).value) >= 1
                                  /\ top(n).value[1] = best
  /\ Present(bs) = {} =>
       \A n \in Ns : top(n) = [thrown |-> "none", value |-> <<>>]

C19_BestAgreesWithTopN ==
  /\ LET top(n) == GetTopNBids(Book, n)
     IN  BestLeadsTopN(top, BestBid(Book), bids_bitset_)
  /\ LET top(n) == GetTopNAsks(Book, n)
     IN  BestLeadsTopN(top, BestAsk(Book), asks_bitset_)

====
